---- MODULE Spec2Model ----
(***************************************************************************)
(* A model of the NIS dashboard front end: the auth context and the route  *)
(* guards, the REST client ("api" module) with its fallbacks, the          *)
(* Dashboard metric cards and the Alerts page.                             *)
(*                                                                         *)
(* Conventions.  A JavaScript string that the code transforms (an email,   *)
(* lower-cased by login) is a tuple of one-character strings; a string the *)
(* code only compares or displays is a TLA+ string.  A nullable value is a *)
(* tuple of length 0 (null / undefined) or 1 (the value).                  *)
(***************************************************************************)
EXTENDS Integers, Sequences, FiniteSets, TLC

VARIABLES
    \* ---- auth context, router and Login page
    user,          \* AuthProvider state `user`: <<>> or <<[email, role, name]>>
    nisUser,       \* localStorage entry 'nis_user': <<>> or <<serialised user>>
    location,      \* the router's current path
    loginError,    \* Login page state `error`
    loginLoading,  \* Login page state `loading`
    loginCall,     \* the last call of login: <<>> or <<[email, password, result, userAfter]>>
    \* ---- one invocation of an api method
    apiPc,         \* "idle", "fetching" (awaiting fetch) or "settled"
    apiCall,       \* <<>> or <<[method, daysAhead]>>
    requests,      \* the requests this invocation has handed to fetch
    apiResponse,   \* <<>> or <<what fetch settled with>>
    apiOutcome,    \* <<>> or <<what the method's promise settled with>>
    \* ---- Dashboard page
    dashPc,        \* "unmounted", "fetching" (awaiting getSummary) or "ready"
    dashData,      \* state `data`
    dashLoading,   \* state `loading`
    \* ---- Alerts page
    alMounted,     \* the page is mounted
    alStatus,      \* state `status`: <<>> or <<AlertStatus>>
    alConfig,      \* state `config`: <<>> or <<AlertConfig>>
    alLoading,     \* state `loading`
    alSending,     \* state `sending`
    alMessage,     \* state `message`: <<>> or <<[type, text]>>
    alInterval,    \* the 30-second interval is set
    alElapsed,     \* milliseconds since the interval was set or last fired
    alLoads,       \* the calls of loadData in flight, oldest first: [origin, superseded]
    alStale,       \* the status shown came from a load older than one already applied
    alSend,        \* the send handler in progress: <<>> or <<[kind, pc]>>
    alLastSend,    \* the last send that settled: <<>> or <<[kind, response, outcome]>>
    alEarlierSends, \* send requests of earlier mountings of the page, still in flight
    \* ---- the cooldown display of the Alerts page
    fmtSeconds,    \* the argument of formatTimeRemaining: <<>> (null) or <<seconds>>
    fmtShown,      \* <<>> or <<what formatTimeRemaining returned for it>>
    \* ---- the Analytics, Trends and Policy Brief pages
    pgPage,               \* the page mounted: "none", "Analytics", "Trends", "PolicyBrief"
    pgLoading,            \* its state `loading`
    pgPredictionsLoading, \* Analytics: its state `predictionsLoading`
    pgAwaiting,           \* the async functions of its effects suspended at their await
    pgSettled,            \* the requests that have settled: [method, response, outcome]
    pgShown,              \* the data held in its state, by the method that fetches it
    \* ---- components/charts/EmotionChart
    emData,        \* the array the parent holds and passes as the prop `data`
    emGiven,       \* the contents of that array when the parent created it
    emBars,        \* <<>> or <<the array handed to BarChart>>
    \* ---- components/charts/TrendChart
    tcMounted,      \* the chart is mounted
    tcData,         \* the prop `data` of the last render
    tcEffectPending, \* the render committed a new `data`; the effect has not run yet
    validData,      \* its state validData
    animatedData,   \* its state animatedData, the array handed to LineChart
    isAnimating,    \* its state isAnimating
    tcTimers,       \* the intervals set and not cleared: [fullData, currentIndex, interval]
    tcCleared,      \* the last cleanup cleared an interval that was still set
    \* ---- the backend's alert service, as the guide describes it
    now,             \* the backend's clock, in minutes
    risk_score,      \* the escalation risk score of the last refresh
    last_alert_time, \* <<>> or <<the time of the last automatic alert>>
    sent_alerts      \* the automatic alerts sent so far: [at, risk]

authVars == <<user, nisUser, location, loginError, loginLoading, loginCall>>
apiVars == <<apiPc, apiCall, requests, apiResponse, apiOutcome>>

dashVars == <<dashPc, dashData, dashLoading>>

alertVars == <<alMounted, alStatus, alConfig, alLoading, alSending, alMessage,
               alInterval, alElapsed, alLoads, alStale, alSend, alLastSend,
               alEarlierSends>>

fmtVars == <<fmtSeconds, fmtShown>>

\* The parts added after the four above.
cooldownVars == <<now, risk_score, last_alert_time, sent_alerts>>

pageVars == <<pgPage, pgLoading, pgPredictionsLoading, pgAwaiting, pgSettled, pgShown>>

chartVars == <<emData, emGiven, emBars>>

trendVars == <<tcMounted, tcData, tcEffectPending, validData, animatedData,
               isAnimating, tcTimers, tcCleared>>

restVars == <<fmtVars, cooldownVars, pageVars, chartVars, trendVars>>

vars == <<authVars, apiVars, dashVars, alertVars, restVars>>

Null == <<>>
Some(x) == <<x>>
IsNull(o) == Len(o) = 0

(***************************************************************************)
(* Strings as character tuples, String.prototype.toLowerCase               *)
(***************************************************************************)
UpperLetters ==
    <<"A","B","C","D","E","F","G","H","I","J","K","L","M",
      "N","O","P","Q","R","S","T","U","V","W","X","Y","Z">>
LowerLetters ==
    <<"a","b","c","d","e","f","g","h","i","j","k","l","m",
      "n","o","p","q","r","s","t","u","v","w","x","y","z">>

LowerChar(c) ==
    IF \E i \in 1..Len(UpperLetters) : UpperLetters[i] = c
    THEN LowerLetters[CHOOSE i \in 1..Len(UpperLetters) : UpperLetters[i] = c]
    ELSE c

UpperChar(c) ==
    IF \E i \in 1..Len(LowerLetters) : LowerLetters[i] = c
    THEN UpperLetters[CHOOSE i \in 1..Len(LowerLetters) : LowerLetters[i] = c]
    ELSE c

\* email.toLowerCase()
toLowerCase(s) == [i \in 1..Len(s) |-> LowerChar(s[i])]

(***************************************************************************)
(* context/AuthContext: CREDENTIALS, login, logout                         *)
(***************************************************************************)
MailDomain == <<"@","n","i","s",".","g","o","v",".","i","n">>
AdminEmail == <<"a","d","m","i","n">> \o MailDomain
AnalystEmail == <<"a","n","a","l","y","s","t">> \o MailDomain
DemoEmail == <<"d","e","m","o">> \o MailDomain

CredentialKeys == {AdminEmail, AnalystEmail, DemoEmail}

\* The own properties of the CREDENTIALS object literal.
CREDENTIALS(key) ==
    CASE key = AdminEmail ->
           [password |-> Some("admin123"), role |-> Some("admin"), name |-> Some("Admin User")]
      [] key = AnalystEmail ->
           [password |-> Some("analyst123"), role |-> Some("analyst"), name |-> Some("Senior Analyst")]
      [] key = DemoEmail ->
           [password |-> Some("demo123"), role |-> Some("demo"), name |-> Some("Demo User")]

\* CREDENTIALS is a plain object: a key it does not own is looked up on
\* Object.prototype, whose lower-case members are truthy values that have no
\* password, role or name.
ObjectPrototypeKeys ==
    { <<"c","o","n","s","t","r","u","c","t","o","r">>,
      <<"_","_","p","r","o","t","o","_","_">> }

\* CREDENTIALS[key]: <<>> is undefined.
CredentialLookup(key) ==
    IF key \in CredentialKeys THEN Some(CREDENTIALS(key))
    ELSE IF key \in ObjectPrototypeKeys
         THEN Some([password |-> Null, role |-> Null, name |-> Null])
         ELSE Null

\* JSON.stringify(userData): the members in insertion order.
JSONstringify(u) == <<"email", u.email, "role", u.role, "name", u.name>>

\* JSON.parse(stored) of a stored user.
JSONparse(s) ==
    [email |-> s[2], role |-> s[4], name |-> s[6]]

\* The credential looked up by the email as typed.
LoginLookupKey_CaseSensitive(email) == email

\* The outcome of login(email, password): its return value and the user and
\* local-storage entry it leaves, given the ones it found.
LoginLookupKey(email) == toLowerCase(email)

\* A login that ends the session when it fails.
login_ClearsOnFailure(email, password, curUser, curStored) ==
    LET credential == CredentialLookup(LoginLookupKey(email)) IN
    IF IsNull(credential) \/ credential[1].password # Some(password)
    THEN [result |-> FALSE, user |-> Null, stored |-> Null]
    ELSE LET userData == [email |-> toLowerCase(email),
                          role |-> credential[1].role[1],
                          name |-> credential[1].name[1]]
         IN [result |-> TRUE, user |-> Some(userData),
             stored |-> Some(JSONstringify(userData))]

login(email, password, curUser, curStored) ==
    LET credential == CredentialLookup(LoginLookupKey(email)) IN
    IF IsNull(credential) \/ credential[1].password # Some(password)
    THEN [result |-> FALSE, user |-> curUser, stored |-> curStored]
    ELSE LET userData == [email |-> toLowerCase(email),
                          role |-> credential[1].role[1],
                          name |-> credential[1].name[1]]
         IN [result |-> TRUE, user |-> Some(userData),
             stored |-> Some(JSONstringify(userData))]

isAuthenticated == ~IsNull(user)
isAdmin == ~IsNull(user) /\ user[1].role = "admin"

\* useState initialiser of AuthProvider: the user restored from local storage.
RestoredUser(stored) == IF IsNull(stored) THEN Null ELSE Some(JSONparse(stored[1]))

(***************************************************************************)
(* App.tsx: the route table and its guards                                 *)
(***************************************************************************)
Navigate(to) == [kind |-> "navigate", target |-> to]
Page(name) == [kind |-> "page", target |-> name]

\* The paths a browser may be pointed at; "/reports" stands for any path no
\* route matches but "*".
Paths == {"/login", "/", "/analytics", "/trends", "/policy-brief", "/ethics",
          "/alerts", "/reports"}

\* AdminRoute with the role check left out.
AdminRoute_NoRoleCheck(authenticated, admin) ==
    IF ~authenticated THEN Navigate("/login") ELSE Page("Alerts")

\* <AdminRoute><Alerts /></AdminRoute>
AdminRoute(authenticated, admin) ==
    IF ~authenticated THEN Navigate("/login")
    ELSE IF ~admin THEN Navigate("/")
    ELSE Page("Alerts")

\* The child routes of "/", rendered in Layout's <Outlet />.
Outlet(path, authenticated, admin) ==
    CASE path = "/" -> Page("Dashboard")
      [] path = "/analytics" -> Page("Analytics")
      [] path = "/trends" -> Page("Trends")
      [] path = "/policy-brief" -> Page("PolicyBrief")
      [] path = "/ethics" -> Page("EthicsScope")
      [] path = "/alerts" -> AdminRoute(authenticated, admin)

\* A ProtectedRoute that renders its children for any session.
ProtectedRoute_Open(path, authenticated, admin) == Outlet(path, authenticated, admin)

\* <ProtectedRoute><Layout /></ProtectedRoute>
ProtectedRoute(path, authenticated, admin) ==
    IF ~authenticated THEN Navigate("/login")
    ELSE Outlet(path, authenticated, admin)

LayoutPaths == {"/", "/analytics", "/trends", "/policy-brief", "/ethics", "/alerts"}

\* <Routes>: what App renders at a path for a session.
RouteElement(path, authenticated, admin) ==
    IF path = "/login"
    THEN (IF authenticated THEN Navigate("/") ELSE Page("Login"))
    ELSE IF path \in LayoutPaths
         THEN ProtectedRoute(path, authenticated, admin)
         ELSE Navigate("/")

\* What is on screen in the current state.
Rendered == RouteElement(location, isAuthenticated, isAdmin)

\* Layout (and with it Navbar) is mounted when ProtectedRoute lets a path of
\* the "/" route through.
LayoutMounted == isAuthenticated /\ location \in LayoutPaths

(***************************************************************************)
(* components/Navbar.tsx                                                   *)
(***************************************************************************)
navItems ==
    << [path |-> "/", label |-> "Dashboard", adminOnly |-> FALSE],
       [path |-> "/analytics", label |-> "Analytics", adminOnly |-> FALSE],
       [path |-> "/trends", label |-> "Trends", adminOnly |-> FALSE],
       [path |-> "/policy-brief", label |-> "Policy Brief", adminOnly |-> FALSE],
       [path |-> "/ethics", label |-> "Ethics & Scope", adminOnly |-> FALSE],
       [path |-> "/alerts", label |-> "Alerts", adminOnly |-> TRUE] >>

\* Every item shown to every role.
NavItemVisible_All(item, admin) == TRUE

NavItemVisible(item, admin) == ~item.adminOnly \/ admin

\* navItems.filter(item => !item.adminOnly || isAdmin)
visibleItems == SelectSeq(navItems, LAMBDA item : NavItemVisible(item, isAdmin))

VisibleLabels == { visibleItems[i].label : i \in 1..Len(visibleItems) }

(***************************************************************************)
(* Inputs of the Login form                                                *)
(***************************************************************************)
\* How many leading characters of an email a user may type in upper case.
MaxUpper == 2

UpperPrefix(s, n) == [i \in 1..Len(s) |-> IF i <= n THEN UpperChar(s[i]) ELSE s[i]]
AllUpper(s) == UpperPrefix(s, Len(s))

EmailInputs ==
    { UpperPrefix(k, n) : k \in CredentialKeys, n \in 0..MaxUpper }
    \cup { AllUpper(k) : k \in CredentialKeys }
    \cup { <<" ">> \o AdminEmail, AdminEmail \o <<" ">>,
           <<"r","o","o","t">> \o MailDomain,
           <<"a","d","m","i","n">>, <<>> }
    \cup ObjectPrototypeKeys

PasswordInputs == {"admin123", "analyst123", "demo123", "Admin123", "ADMIN123", ""}

(***************************************************************************)
(* Actions of the session: Login.handleSubmit, Navbar.handleLogout, the    *)
(* router, a page reload                                                   *)
(***************************************************************************)
\* Login.handleSubmit: login has no await before its return, so the submit runs
\* to its end in one step.
HandleSubmit(email, password) ==
    /\ Rendered = Page("Login")
    /\ LET r == login(email, password, user, nisUser) IN
       /\ user' = r.user
       /\ nisUser' = r.stored
       /\ location' = IF r.result THEN "/" ELSE location
       /\ loginError' = IF r.result THEN "" ELSE "Invalid credentials. Please try again."
       /\ loginLoading' = FALSE
       /\ loginCall' = Some([email |-> email, password |-> password,
                             result |-> r.result, userAfter |-> r.user])

\* A logout that does not navigate.
HandleLogout_StaysOnPage ==
    /\ LayoutMounted
    /\ user' = Null
    /\ nisUser' = Null
    /\ UNCHANGED <<location, loginError, loginLoading, loginCall>>

\* A logout that leaves the entry in local storage.
HandleLogout_KeepsStorage ==
    /\ LayoutMounted
    /\ user' = Null
    /\ location' = "/login"
    /\ UNCHANGED <<nisUser, loginError, loginLoading, loginCall>>

\* Navbar.handleLogout: logout(); navigate('/login')
HandleLogout ==
    /\ LayoutMounted
    /\ user' = Null
    /\ nisUser' = Null
    /\ location' = "/login"
    /\ UNCHANGED <<loginError, loginLoading, loginCall>>

\* A NavLink click or an address typed in: the router moves to the path.
Visit(path) ==
    /\ location' = path
    /\ loginError' = IF path = "/login" /\ location = "/login" THEN loginError ELSE ""
    /\ UNCHANGED <<user, nisUser, loginLoading, loginCall>>

\* A rendered <Navigate to=... replace /> moves the router.
Redirect ==
    /\ Rendered.kind = "navigate"
    /\ location' = Rendered.target
    /\ loginError' = ""
    /\ UNCHANGED <<user, nisUser, loginLoading, loginCall>>

\* The browser reloads the page: AuthProvider and Login are constructed anew.
Reload ==
    /\ user' = RestoredUser(nisUser)
    /\ loginError' = ""
    /\ loginLoading' = FALSE
    /\ UNCHANGED <<nisUser, location, loginCall>>

AuthInit ==
    /\ nisUser \in {Null} \cup { Some(JSONstringify([email |-> k,
                                    role |-> CREDENTIALS(k).role[1],
                                    name |-> CREDENTIALS(k).name[1]])) : k \in CredentialKeys }
    /\ user = RestoredUser(nisUser)
    /\ location \in Paths
    /\ loginError = ""
    /\ loginLoading = FALSE
    /\ loginCall = Null

(***************************************************************************)
(* The network as the REST client sees it: what fetch() settles with       *)
(***************************************************************************)
\* Text shown to the user: a literal, or the template `HTTP ${status}`.
Text(t) == [text |-> t]
HttpText(status) == [http |-> status]

JsonNull == [type |-> "null"]
\* A JSON object; detail and message are <<>> when the member is absent.
JsonObject(detail, message, data) ==
    [type |-> "object", detail |-> detail, message |-> message, data |-> data]

Unparseable == [parses |-> FALSE, json |-> JsonNull]
Parsed(v) == [parses |-> TRUE, json |-> v]

\* fetch() rejects (no connection), or resolves with a response.
FetchRejects == [kind |-> "reject", status |-> 0, body |-> Unparseable]
Response(status, body) == [kind |-> "response", status |-> status, body |-> body]

HttpStatuses == {200, 201, 299, 304, 400, 404, 429, 500, 502}

\* Response.ok
ok(response) == response.status >= 200 /\ response.status <= 299

Fulfilled(v) == [state |-> "fulfilled", value |-> v]
Rejected(name, message) ==
    [state |-> "rejected", value |-> [name |-> name, message |-> message]]

\* await response.json()
responseJson(response) ==
    IF response.body.parses
    THEN Fulfilled(response.body.json)
    ELSE Rejected("SyntaxError", Text("Unexpected token in JSON"))

\* await fetch(...)
fetchSettled(r) ==
    IF r.kind = "reject"
    THEN Rejected("TypeError", Text("Failed to fetch"))
    ELSE Fulfilled(r)

(***************************************************************************)
(* services/api.ts                                                         *)
(***************************************************************************)
mockDashboardSummary ==
    [type |-> "object", trust_index |-> 724, volatility_index |-> 342,
     escalation_risk |-> [score |-> 285, level |-> "Low"],
     total_posts_analyzed |-> 847]
mockIssues == [type |-> "array", data |-> "mockIssues"]
mockTrends == [type |-> "array", data |-> "mockTrends"]
mockPolicyBrief == [type |-> "object", data |-> "mockPolicyBrief"]

SentimentPredictionDefault ==
    [type |-> "object", forecast_dates |-> <<>>, predicted_sentiment |-> <<>>,
     confidence_upper |-> <<>>, confidence_lower |-> <<>>,
     trend_direction |-> "stable", method |-> "default",
     note |-> "Prediction data unavailable"]

RiskPredictionDefault ==
    [type |-> "object", predicted_risk |-> "medium", risk_score |-> 5,
     trend |-> "stable", confidence |-> "low",
     note |-> "Prediction data unavailable"]

RefreshDefault ==
    [type |-> "object", status |-> "refreshed (mock)", timestamp |-> "now"]

AlertStatusDefault ==
    [type |-> "object", risk_score |-> 0, risk_level |-> "Low",
     alert_status |-> "Normal", auto_alerts_enabled |-> TRUE, threshold |-> 70,
     last_alert_time |-> Null, can_send_alert |-> TRUE,
     time_until_next_alert |-> Null]

AlertConfigDefault ==
    [type |-> "object", threshold |-> 70, cooldown_minutes |-> 15,
     email_configured |-> FALSE, recipients |-> <<>>]

\* The fallback pattern with response.json() called outside the try block.
FallbackOnFailure_ParseOutsideTry(r, fallbackData) ==
    LET fetched == fetchSettled(r) IN
    IF fetched.state = "rejected" THEN Fulfilled(fallbackData)
    ELSE IF ~ok(fetched.value) THEN Fulfilled(fallbackData)
    ELSE responseJson(fetched.value)

\* try { fetch; if (!response.ok) throw; return await response.json() }
\* catch { return fallback }: the body of fetchWithFallback, and of refresh,
\* getAlertStatus and getAlertConfig.
FallbackOnFailure(r, fallbackData) ==
    LET fetched == fetchSettled(r) IN
    IF fetched.state = "rejected" THEN Fulfilled(fallbackData)
    ELSE IF ~ok(fetched.value) THEN Fulfilled(fallbackData)
    ELSE LET parsed == responseJson(fetched.value) IN
         IF parsed.state = "rejected" THEN Fulfilled(fallbackData) ELSE parsed

\* fetchWithFallback with a catch that rethrows.
fetchWithFallback_Rethrow(r, fallbackData) ==
    LET fetched == fetchSettled(r) IN
    IF fetched.state = "rejected" THEN fetched
    ELSE IF ~ok(fetched.value) THEN Rejected("Error", HttpText(fetched.value.status))
    ELSE responseJson(fetched.value)

\* fetchWithFallback with the status check outside its try.
fetchWithFallback_ThrowsOnHttpError(r, fallbackData) ==
    LET fetched == fetchSettled(r) IN
    IF fetched.state = "rejected" THEN Fulfilled(fallbackData)
    ELSE IF ~ok(fetched.value) THEN Rejected("Error", HttpText(fetched.value.status))
    ELSE LET parsed == responseJson(fetched.value)
         IN IF parsed.state = "rejected" THEN Fulfilled(fallbackData) ELSE parsed

fetchWithFallback(r, fallbackData) == FallbackOnFailure(r, fallbackData)

\* error.detail || `HTTP ${response.status}`; reading a member of null throws.
ErrorDetailOrStatus(error, status) ==
    IF error.type = "null"
    THEN Rejected("TypeError", Text("Cannot read properties of null"))
    ELSE IF error.type = "object" /\ ~IsNull(error.detail) /\ error.detail[1] # ""
         THEN Rejected("Error", Text(error.detail[1]))
         ELSE Rejected("Error", HttpText(status))

\* sendManualAlert and testEmail: catch (error) { throw error }
RethrowOnFailure(r) ==
    LET fetched == fetchSettled(r) IN
    IF fetched.state = "rejected" THEN fetched
    ELSE IF ~ok(fetched.value)
         THEN LET error == responseJson(fetched.value) IN
              IF error.state = "rejected" THEN error
              ELSE ErrorDetailOrStatus(error.value, fetched.value.status)
         ELSE responseJson(fetched.value)

DashboardGetters ==
    {"getSummary", "getIssues", "getTrends", "getBrief",
     "getSentimentPredictions", "getRiskPredictions"}
AlertGetters == {"getAlertStatus", "getAlertConfig"}
AlertSenders == {"sendManualAlert", "testEmail"}
ApiMethods == DashboardGetters \cup {"refresh"} \cup AlertGetters \cup AlertSenders

\* The fallback each method passes or returns.
FallbackOf(method) ==
    CASE method = "getSummary" -> mockDashboardSummary
      [] method = "getIssues" -> mockIssues
      [] method = "getTrends" -> mockTrends
      [] method = "getBrief" -> mockPolicyBrief
      [] method = "refresh" -> RefreshDefault
      [] method = "getSentimentPredictions" -> SentimentPredictionDefault
      [] method = "getRiskPredictions" -> RiskPredictionDefault
      [] method = "getAlertStatus" -> AlertStatusDefault
      [] method = "getAlertConfig" -> AlertConfigDefault

\* A base without the version segment.
API_BASE_Unversioned == "/api/dashboard"

API_BASE == "/api/v1/dashboard"

\* The request a method hands to fetch.  daysAhead is read only by the two
\* prediction getters.
RequestOf(method, daysAhead) ==
    CASE method = "getSummary" ->
           [verb |-> "GET", base |-> API_BASE, path |-> "/summary", days_ahead |-> Null]
      [] method = "getIssues" ->
           [verb |-> "GET", base |-> API_BASE, path |-> "/issues", days_ahead |-> Null]
      [] method = "getTrends" ->
           [verb |-> "GET", base |-> API_BASE, path |-> "/trends", days_ahead |-> Null]
      [] method = "getBrief" ->
           [verb |-> "GET", base |-> API_BASE, path |-> "/brief", days_ahead |-> Null]
      [] method = "refresh" ->
           [verb |-> "POST", base |-> API_BASE, path |-> "/refresh", days_ahead |-> Null]
      [] method = "getSentimentPredictions" ->
           [verb |-> "GET", base |-> API_BASE, path |-> "/predictions/sentiment",
            days_ahead |-> Some(daysAhead)]
      [] method = "getRiskPredictions" ->
           [verb |-> "GET", base |-> API_BASE, path |-> "/predictions/risk",
            days_ahead |-> Some(daysAhead)]
      [] method = "getAlertStatus" ->
           [verb |-> "GET", base |-> "/api/v1/alerts", path |-> "/status", days_ahead |-> Null]
      [] method = "sendManualAlert" ->
           [verb |-> "POST", base |-> "/api/v1/alerts", path |-> "/send-manual", days_ahead |-> Null]
      [] method = "testEmail" ->
           [verb |-> "POST", base |-> "/api/v1/alerts", path |-> "/test-email", days_ahead |-> Null]
      [] method = "getAlertConfig" ->
           [verb |-> "GET", base |-> "/api/v1/alerts", path |-> "/config", days_ahead |-> Null]

\* The path fetch is called with, without the query string:
\* `${API_BASE}${endpoint}`.
RequestUrl(req) == req.base \o req.path

\* What the promise a method returned settles with, once its fetch has
\* settled with r.
ApiSettles(method, r) ==
    IF method \in DashboardGetters THEN fetchWithFallback(r, FallbackOf(method))
    ELSE IF method \in AlertSenders THEN RethrowOnFailure(r)
    ELSE FallbackOnFailure(r, FallbackOf(method))

\* One more attempt after a first failure.
AfterFetch_RetryOnce(method, r, attempts) ==
    IF attempts < 2 /\ (r.kind = "reject" \/ ~ok(r)) THEN "retry" ELSE "settle"

\* What a method does once its fetch has settled: every method returns or
\* throws; none loops back to fetch.
AfterFetch(method, r, attempts) == "settle"

(***************************************************************************)
(* One invocation of an api method, step by step                           *)
(***************************************************************************)
\* Bodies a server (or a proxy in front of it) may answer with.
ServerBodies ==
    { Unparseable,
      Parsed(JsonNull),
      Parsed(JsonObject(Null, Null, "payload")),
      Parsed(JsonObject(Null, Some("Alert sent successfully"), "")),
      Parsed(JsonObject(Some("Alert cooldown active"), Null, "")),
      Parsed(JsonObject(Some(""), Null, "")) }

FetchOutcomes ==
    {FetchRejects} \cup { Response(st, b) : st \in HttpStatuses, b \in ServerBodies }

DaysAheadInputs == {7, 14}

Invoke(method, daysAhead) ==
    /\ apiPc \in {"idle", "settled"}
    /\ apiPc' = "fetching"
    /\ apiCall' = Some([method |-> method, daysAhead |-> daysAhead])
    /\ requests' = <<RequestOf(method, daysAhead)>>
    /\ apiResponse' = Null
    /\ apiOutcome' = Null

FetchSettles(r) ==
    /\ apiPc = "fetching"
    /\ apiResponse' = Some(r)
    /\ IF AfterFetch(apiCall[1].method, r, Len(requests)) = "settle"
       THEN /\ apiPc' = "settled"
            /\ apiOutcome' = Some(ApiSettles(apiCall[1].method, r))
            /\ requests' = requests
       ELSE /\ apiPc' = "fetching"
            /\ apiOutcome' = Null
            /\ requests' = Append(requests,
                              RequestOf(apiCall[1].method, apiCall[1].daysAhead))
    /\ apiCall' = apiCall

ApiInit ==
    /\ apiPc = "idle"
    /\ apiCall = Null
    /\ requests = <<>>
    /\ apiResponse = Null
    /\ apiOutcome = Null

NextApi ==
    \/ \E m \in ApiMethods, d \in DaysAheadInputs :
         /\ (m \notin {"getSentimentPredictions", "getRiskPredictions"} => d = 7)
         /\ Invoke(m, d)
         /\ UNCHANGED <<authVars, dashVars, alertVars, restVars>>
    \/ /\ apiPc = "fetching"
       /\ \E r \in FetchOutcomes : FetchSettles(r)
       /\ UNCHANGED <<authVars, dashVars, alertVars, restVars>>

(***************************************************************************)
(* pages/Dashboard: the three primary metric cards                         *)
(*                                                                         *)
(* Index values are fixed-point numbers in tenths: 72.4 is 724.            *)
(***************************************************************************)
TrustSuccessMin == 700
TrustWarningMin == 500
VolatilitySuccessBelow == 400
VolatilityWarningBelow == 600

\* Unknown levels rendered as a warning.
getRiskStatus_DefaultWarning(level) ==
    CASE level = "Low" -> "success"
      [] level = "Moderate" -> "warning"
      [] level = "High" -> "danger"
      [] level = "Critical" -> "danger"
      [] OTHER -> "warning"

\* Strict comparisons at the thresholds.
getTrustStatus_Strict(value) ==
    IF value > TrustSuccessMin THEN "success"
    ELSE IF value > TrustWarningMin THEN "warning"
    ELSE "danger"

\* Inclusive comparisons at the thresholds.
VolatilityStatus_Inclusive(value) ==
    IF value <= VolatilitySuccessBelow THEN "success"
    ELSE IF value <= VolatilityWarningBelow THEN "warning"
    ELSE "danger"

getRiskStatus(level) ==
    CASE level = "Low" -> "success"
      [] level = "Moderate" -> "warning"
      [] level = "High" -> "danger"
      [] level = "Critical" -> "danger"
      [] OTHER -> "success"

getTrustStatus(value) ==
    IF value >= TrustSuccessMin THEN "success"
    ELSE IF value >= TrustWarningMin THEN "warning"
    ELSE "danger"

\* data.volatility_index < 40 ? 'success' : data.volatility_index < 60 ? 'warning' : 'danger'
VolatilityStatus(value) ==
    IF value < VolatilitySuccessBelow THEN "success"
    ELSE IF value < VolatilityWarningBelow THEN "warning"
    ELSE "danger"

\* The status prop of each MetricCard of the primary grid.
TrustCardStatus == getTrustStatus(dashData.trust_index)
RiskCardStatus == getRiskStatus(dashData.escalation_risk.level)
VolatilityCardStatus == VolatilityStatus(dashData.volatility_index)

\* Index values from 0 in steps of 5.0, MaxMetric of them above 0, and every
\* tenth within MaxDelta tenths of a threshold.
MaxMetric == 20
MaxDelta == 2

MetricValues ==
    { 50 * n : n \in 0..MaxMetric }
    \cup { t + d : t \in {TrustSuccessMin, TrustWarningMin,
                          VolatilitySuccessBelow, VolatilityWarningBelow},
                   d \in (0 - MaxDelta)..MaxDelta }

\* The four levels of the EscalationRisk type, and strings outside it.
RiskLevels == {"Low", "Moderate", "High", "Critical", "low", "Severe", ""}

ServerSummaries ==
    { [type |-> "object", trust_index |-> t, volatility_index |-> v,
       escalation_risk |-> [score |-> 285, level |-> l],
       total_posts_analyzed |-> 847] :
      t \in MetricValues, v \in MetricValues, l \in RiskLevels }

SummaryOutcomes ==
    { FetchRejects, Response(500, Unparseable), Response(200, Unparseable) }
    \cup { Response(200, Parsed(d)) : d \in ServerSummaries }

\* The page mounts: useState initialisers, then the effect starts fetchData.
DashMount ==
    /\ dashPc = "unmounted"
    /\ dashPc' = "fetching"
    /\ dashData' = mockDashboardSummary
    /\ dashLoading' = TRUE

\* fetchData resumes after `await api.getSummary()`; were the promise to
\* reject, the await would throw and the statements after it would not run.
DashFetchSettles(r) ==
    LET result == ApiSettles("getSummary", r) IN
    /\ dashPc = "fetching"
    /\ IF result.state = "fulfilled"
       THEN /\ dashPc' = "ready"
            /\ dashData' = result.value
            /\ dashLoading' = FALSE
       ELSE /\ dashPc' = "threw"
            /\ UNCHANGED <<dashData, dashLoading>>

\* The user leaves the page; its state is discarded.
DashUnmount ==
    /\ dashPc # "unmounted"
    /\ dashPc' = "unmounted"
    /\ dashData' = mockDashboardSummary
    /\ dashLoading' = TRUE

DashInit ==
    /\ dashPc = "unmounted"
    /\ dashData = mockDashboardSummary
    /\ dashLoading = TRUE

NextDash ==
    \/ DashMount /\ UNCHANGED <<authVars, apiVars, alertVars, restVars>>
    \/ /\ dashPc = "fetching"
       /\ \E r \in SummaryOutcomes : DashFetchSettles(r)
       /\ UNCHANGED <<authVars, apiVars, alertVars, restVars>>
    \/ DashUnmount /\ UNCHANGED <<authVars, apiVars, alertVars, restVars>>

(***************************************************************************)
(* pages/Alerts                                                            *)
(*                                                                         *)
(* The router mounts the page for an admin session at /alerts.  loadData   *)
(* awaits Promise.all of getAlertStatus and getAlertConfig, neither of     *)
(* which rejects, so a load resumes once, when both have settled; a load   *)
(* in flight is an element of alLoads, in the order the loads started.     *)
(***************************************************************************)
StatusReady ==
    [type |-> "object", risk_score |-> 42, risk_level |-> "Moderate",
     alert_status |-> "Normal", auto_alerts_enabled |-> TRUE, threshold |-> 70,
     last_alert_time |-> Null, can_send_alert |-> TRUE,
     time_until_next_alert |-> Null]

StatusCooldown ==
    [type |-> "object", risk_score |-> 85, risk_level |-> "High",
     alert_status |-> "Alert Sent", auto_alerts_enabled |-> TRUE, threshold |-> 70,
     last_alert_time |-> Some("2026-01-01T10:00:00"), can_send_alert |-> FALSE,
     time_until_next_alert |-> Some(540)]

ConfigReady ==
    [type |-> "object", threshold |-> 70, cooldown_minutes |-> 15,
     email_configured |-> TRUE, recipients |-> <<"officer@example.org">>]

StatusOutcomes ==
    { FetchRejects, Response(500, Unparseable), Response(200, Parsed(JsonNull)),
      Response(200, Parsed(StatusReady)), Response(200, Parsed(StatusCooldown)) }

ConfigOutcomes ==
    { FetchRejects, Response(502, Unparseable), Response(200, Parsed(JsonNull)),
      Response(200, Parsed(ConfigReady)) }

SendOutcomes ==
    {FetchRejects} \cup { Response(st, b) : st \in {200, 400, 500, 502}, b \in ServerBodies }

\* How many loads the interval may have in flight at once.
MaxLoads == 2

\* A state value set from a JSON value: JSON null is null.
Nullable(v) == IF v.type = "null" THEN Null ELSE Some(v)

\* if (loading && !status) return <the 'Loading...' placeholder>
AlertsPlaceholder == alLoading /\ IsNull(alStatus)

\* status?.can_send_alert ?? true
canSend == IF IsNull(alStatus) THEN TRUE ELSE alStatus[1].can_send_alert

\* config?.email_configured
emailConfigured == IF IsNull(alConfig) THEN FALSE ELSE alConfig[1].email_configured

\* A manual-alert button that does not look at the configuration.
ManualAlertDisabled_IgnoresConfig == ~canSend \/ alSending

\* The disabled props of the two action buttons.
ManualAlertDisabled == ~canSend \/ alSending \/ ~emailConfigured
TestEmailDisabled == alSending \/ ~emailConfigured

\* loadData up to its await: setLoading(true) and the two requests.
StartLoad(origin) ==
    /\ alLoading' = IF alMounted THEN TRUE ELSE alLoading
    /\ alLoads' = Append(alLoads, [origin |-> origin, superseded |-> FALSE])

\* setInterval(loadData, 30000)
PollIntervalMs == 30000

RemoveAt(seq, i) == SubSeq(seq, 1, i - 1) \o SubSeq(seq, i + 1, Len(seq))

\* The page mounts: useState initialisers, then the effect calls loadData and
\* starts the 30-second interval.  Requests of an earlier instance of the page
\* act on that instance only; the page is mounted anew once its loads are
\* gone, while a send request it left behind may still be in flight.
AlertsMount ==
    /\ ~alMounted
    /\ alLoads = <<>>
    /\ IsNull(alSend)
    /\ alMounted' = TRUE
    /\ alStatus' = Null
    /\ alConfig' = Null
    /\ alLoading' = TRUE
    /\ alSending' = FALSE
    /\ alMessage' = Null
    /\ alInterval' = TRUE
    /\ alElapsed' = 0
    /\ alLoads' = <<[origin |-> "effect", superseded |-> FALSE]>>
    /\ alStale' = FALSE
    /\ alSend' = Null
    /\ alLastSend' = Null
    /\ UNCHANGED alEarlierSends

\* How many send requests of earlier mountings may be in flight at once.
MaxEarlierSends == 1

\* The handler in progress is suspended at its send request.
SendInFlight == ~IsNull(alSend) /\ alSend[1].pc = "awaitSend"

\* An unmount whose cleanup leaves the interval set.
AlertsUnmount_NoClearInterval ==
    /\ alMounted
    /\ alMounted' = FALSE
    /\ alStatus' = Null
    /\ alConfig' = Null
    /\ alLoading' = TRUE
    /\ alSending' = FALSE
    /\ alMessage' = Null
    /\ alStale' = FALSE
    /\ alLastSend' = Null
    /\ SendInFlight => alEarlierSends < MaxEarlierSends
    /\ alSend' = IF SendInFlight THEN Null ELSE alSend
    /\ alEarlierSends' = IF SendInFlight THEN alEarlierSends + 1 ELSE alEarlierSends
    /\ UNCHANGED <<alInterval, alElapsed, alLoads>>

\* The effect's cleanup: clearInterval.  The state of the page is discarded;
\* nothing aborts a send request in flight, which goes on without a page.
AlertsUnmount ==
    /\ alMounted
    /\ alMounted' = FALSE
    /\ alInterval' = FALSE
    /\ alElapsed' = 0
    /\ alStatus' = Null
    /\ alConfig' = Null
    /\ alLoading' = TRUE
    /\ alSending' = FALSE
    /\ alMessage' = Null
    /\ alStale' = FALSE
    /\ alLastSend' = Null
    /\ SendInFlight => alEarlierSends < MaxEarlierSends
    /\ alSend' = IF SendInFlight THEN Null ELSE alSend
    /\ alEarlierSends' = IF SendInFlight THEN alEarlierSends + 1 ELSE alEarlierSends
    /\ alLoads' = alLoads

\* A send request of an earlier mounting settles; the setState calls of its
\* handler act on no mounted page.
EarlierSendSettles ==
    /\ alEarlierSends > 0
    /\ alEarlierSends' = alEarlierSends - 1
    /\ UNCHANGED <<alMounted, alStatus, alConfig, alLoading, alSending, alMessage,
                   alInterval, alElapsed, alLoads, alStale, alSend, alLastSend>>

\* The delay of the interval passes; a timer fires no earlier than its delay,
\* and the clock stops counting once the delay has passed.
TimePasses ==
    /\ alInterval
    /\ alElapsed < PollIntervalMs
    /\ alElapsed' = PollIntervalMs
    /\ UNCHANGED <<alMounted, alStatus, alConfig, alLoading, alSending, alMessage,
                   alInterval, alLoads, alStale, alSend, alLastSend, alEarlierSends>>

\* setInterval(loadData, 30000) fires.
IntervalTick ==
    /\ alInterval
    /\ alElapsed >= PollIntervalMs
    /\ Len(alLoads) < MaxLoads
    /\ StartLoad("interval")
    /\ alElapsed' = 0
    /\ UNCHANGED <<alMounted, alStatus, alConfig, alSending, alMessage,
                   alInterval, alStale, alSend, alLastSend, alEarlierSends>>

\* The loads in flight once load i is gone: the loads started before it have
\* been overtaken by a completed load.
Overtake(loads, i) ==
    [j \in 1..(Len(loads) - 1) |->
        IF j < i THEN [loads[j] EXCEPT !.superseded = TRUE] ELSE loads[j + 1]]

\* loadData resumes after its await with the two results; when the load was
\* started by handleSendManualAlert, that handler resumes after it and runs
\* its finally block.
LoadSettles(i, rs, rc) ==
    /\ i \in 1..Len(alLoads)
    /\ LET statusData == ApiSettles("getAlertStatus", rs).value
           configData == ApiSettles("getAlertConfig", rc).value
           bySend == alLoads[i].origin = "send"
       IN /\ alLoads' = Overtake(alLoads, i)
          /\ IF alMounted
             THEN /\ alStatus' = Nullable(statusData)
                  /\ alConfig' = Nullable(configData)
                  /\ alLoading' = FALSE
                  /\ alSending' = IF bySend THEN FALSE ELSE alSending
                  /\ alStale' = alLoads[i].superseded
             ELSE UNCHANGED <<alStatus, alConfig, alLoading, alSending, alStale>>
          /\ alSend' = IF bySend THEN Null ELSE alSend
    /\ UNCHANGED <<alMounted, alMessage, alInterval, alElapsed, alLastSend, alEarlierSends>>

\* A click on 'Send Alert Manually' / 'Test Email': the handler up to its await.
StartSend(kind) ==
    /\ alMounted
    /\ ~AlertsPlaceholder
    /\ alSending' = TRUE
    /\ alMessage' = Null
    /\ alSend' = Some([kind |-> kind, pc |-> "awaitSend"])
    /\ alLastSend' = Null
    /\ UNCHANGED <<alMounted, alStatus, alConfig, alLoading, alInterval, alElapsed,
                   alLoads, alStale, alEarlierSends>>

ClickSendManualAlert == ~ManualAlertDisabled /\ StartSend("manual")
ClickTestEmail == ~TestEmailDisabled /\ StartSend("test")

\* error.message || 'Failed to send alert' / 'Failed to send test email'
ErrorBanner(kind, error) ==
    [type |-> "error",
     text |-> IF error.message = Text("")
              THEN (IF kind = "manual" THEN Text("Failed to send alert")
                    ELSE Text("Failed to send test email"))
              ELSE error.message]

\* setMessage({ type: 'success', text: result.message })
SuccessBanner(result) ==
    [type |-> "success",
     text |-> IF IsNull(result.message) THEN [undefined |-> TRUE]
              ELSE Text(result.message[1])]

\* A handler that does not refresh the status after a send.
AfterSend_NeverReloads(kind, out) ==
    IF out.state = "rejected"
    THEN [banner |-> ErrorBanner(kind, out.value), reload |-> FALSE]
    ELSE IF out.value.type = "null"
         THEN [banner |-> ErrorBanner(kind,
                   [name |-> "TypeError", message |-> Text("Cannot read properties of null")]),
               reload |-> FALSE]
         ELSE [banner |-> SuccessBanner(out.value), reload |-> FALSE]

\* What the handler's try block does with the settled send: the banner it
\* sets, and whether it goes on to loadData.  Reading result.message of a
\* null result throws inside the try.
AfterSend(kind, out) ==
    IF out.state = "rejected"
    THEN [banner |-> ErrorBanner(kind, out.value), reload |-> FALSE]
    ELSE IF out.value.type = "null"
         THEN [banner |-> ErrorBanner(kind,
                   [name |-> "TypeError", message |-> Text("Cannot read properties of null")]),
               reload |-> FALSE]
         ELSE [banner |-> SuccessBanner(out.value), reload |-> kind = "manual"]

\* The handler resumes after `await api.sendManualAlert()` / `api.testEmail()`.
SendSettles(r) ==
    /\ ~IsNull(alSend)
    /\ alSend[1].pc = "awaitSend"
    /\ LET kind == alSend[1].kind
           out == ApiSettles(IF kind = "manual" THEN "sendManualAlert" ELSE "testEmail", r)
           next == AfterSend(kind, out)
       IN /\ alMessage' = IF alMounted THEN Some(next.banner) ELSE alMessage
          /\ alLastSend' = IF alMounted
                           THEN Some([kind |-> kind, response |-> r, outcome |-> out])
                           ELSE alLastSend
          /\ IF next.reload
             THEN /\ StartLoad("send")
                  /\ alSend' = Some([kind |-> kind, pc |-> "awaitLoad"])
                  /\ alSending' = alSending
             ELSE /\ alSend' = Null
                  /\ alSending' = FALSE
                  /\ UNCHANGED <<alLoading, alLoads>>
    /\ UNCHANGED <<alMounted, alStatus, alConfig, alInterval, alElapsed, alStale,
                   alEarlierSends>>

AlertsInit ==
    /\ alMounted = FALSE
    /\ alStatus = Null
    /\ alConfig = Null
    /\ alLoading = TRUE
    /\ alSending = FALSE
    /\ alMessage = Null
    /\ alInterval = FALSE
    /\ alElapsed = 0
    /\ alLoads = <<>>
    /\ alStale = FALSE
    /\ alSend = Null
    /\ alLastSend = Null
    /\ alEarlierSends = 0

NextAlerts ==
    \/ AlertsMount /\ UNCHANGED <<authVars, apiVars, dashVars, restVars>>
    \/ AlertsUnmount /\ UNCHANGED <<authVars, apiVars, dashVars, restVars>>
    \/ TimePasses /\ UNCHANGED <<authVars, apiVars, dashVars, restVars>>
    \/ IntervalTick /\ UNCHANGED <<authVars, apiVars, dashVars, restVars>>
    \/ /\ alLoads # <<>>
       /\ \E i \in 1..Len(alLoads), rs \in StatusOutcomes, rc \in ConfigOutcomes :
            LoadSettles(i, rs, rc)
       /\ UNCHANGED <<authVars, apiVars, dashVars, restVars>>
    \/ ClickSendManualAlert /\ UNCHANGED <<authVars, apiVars, dashVars, restVars>>
    \/ ClickTestEmail /\ UNCHANGED <<authVars, apiVars, dashVars, restVars>>
    \/ /\ ~IsNull(alSend)
       /\ \E r \in SendOutcomes : SendSettles(r)
       /\ UNCHANGED <<authVars, apiVars, dashVars, restVars>>
    \/ EarlierSendSettles /\ UNCHANGED <<authVars, apiVars, dashVars, restVars>>

(***************************************************************************)
(* pages/Alerts: formatTimeRemaining                                       *)
(***************************************************************************)
SecondsPerMinute == 60

\* The largest time_until_next_alert a status carries here.
MaxSeconds == 130

\* The minutes and seconds printed without Math.floor(seconds % 60).
formatTimeRemaining_NoModulo(seconds) ==
    IF IsNull(seconds) \/ seconds = Some(0)
    THEN [ready |-> TRUE, minutes |-> 0, secs |-> 0]
    ELSE [ready |-> FALSE,
          minutes |-> seconds[1] \div SecondsPerMinute,
          secs |-> seconds[1]]

\* 'Ready', or `${minutes}m ${secs}s` as the two numbers it prints.
formatTimeRemaining(seconds) ==
    IF IsNull(seconds) \/ seconds = Some(0)
    THEN [ready |-> TRUE, minutes |-> 0, secs |-> 0]
    ELSE [ready |-> FALSE,
          minutes |-> seconds[1] \div SecondsPerMinute,
          secs |-> seconds[1] % SecondsPerMinute]

SecondsInputs == {Null} \cup { Some(n) : n \in 0..MaxSeconds }

\* A poll replaces the status, and with it time_until_next_alert.
SetSeconds(s) ==
    /\ fmtSeconds' = s
    /\ fmtShown' = Null

\* The page renders the cooldown.
ShowCooldown ==
    /\ IsNull(fmtShown)
    /\ fmtShown' = Some(formatTimeRemaining(fmtSeconds))
    /\ fmtSeconds' = fmtSeconds

FmtInit ==
    /\ fmtSeconds = Null
    /\ fmtShown = Null

NextFmt ==
    \/ /\ ~IsNull(fmtShown)
       /\ \E s \in SecondsInputs : SetSeconds(s)
       /\ UNCHANGED <<authVars, apiVars, dashVars, alertVars, cooldownVars, pageVars, chartVars, trendVars>>
    \/ ShowCooldown /\ UNCHANGED <<authVars, apiVars, dashVars, alertVars, cooldownVars, pageVars, chartVars, trendVars>>

(***************************************************************************)
(* pages/Analytics, pages/Trends, pages/PolicyBrief                        *)
(*                                                                         *)
(* The router renders one page at a time.  Each page starts its requests   *)
(* from effects that run once, on mount; an async function that awaits     *)
(* Promise.all resumes when all its requests have fulfilled, or as soon as *)
(* one has rejected.                                                       *)
(***************************************************************************)
EffectPages == {"Analytics", "Trends", "PolicyBrief"}

PageFunctions(page) ==
    IF page = "Analytics" THEN {"fetchData", "fetchPredictions"} ELSE {"fetchData"}

\* The api methods an async function of a page awaits.
Awaited(page, fn) ==
    CASE page = "Analytics" /\ fn = "fetchData" -> {"getSummary"}
      [] page = "Analytics" /\ fn = "fetchPredictions" ->
             {"getSentimentPredictions", "getRiskPredictions"}
      [] page = "Trends" /\ fn = "fetchData" -> {"getIssues", "getTrends"}
      [] page = "PolicyBrief" /\ fn = "fetchData" -> {"getBrief"}
      [] OTHER -> {}

PageMethods(page) == UNION { Awaited(page, fn) : fn \in PageFunctions(page) }

\* The useState initialisers: mock data, and null for the two predictions.
InitialData(method) ==
    IF method \in {"getSentimentPredictions", "getRiskPredictions"}
    THEN JsonNull
    ELSE FallbackOf(method)

SettledMethods(settled) == { e.method : e \in settled }

PageMount(page) ==
    /\ pgPage = "none"
    /\ dashPc = "unmounted"
    /\ pgPage' = page
    /\ pgLoading' = TRUE
    /\ pgPredictionsLoading' = (page = "Analytics")
    /\ pgAwaiting' = PageFunctions(page)
    /\ pgSettled' = {}
    /\ pgShown' = [m \in PageMethods(page) |-> InitialData(m)]

\* The request of one method settles, and the function awaiting it resumes
\* if that completes its await.
PageFetchSettles(method, r) ==
    /\ pgPage # "none"
    /\ method \in PageMethods(pgPage) \ SettledMethods(pgSettled)
    /\ LET outcome == ApiSettles(method, r)
           settled == pgSettled \cup {[method |-> method, response |-> r, outcome |-> outcome]}
           fn == CHOOSE f \in PageFunctions(pgPage) : method \in Awaited(pgPage, f)
           group == Awaited(pgPage, fn)
           throws == fn \in pgAwaiting /\ outcome.state = "rejected"
           returns == /\ fn \in pgAwaiting
                      /\ group \subseteq SettledMethods(settled)
                      /\ \A e \in settled : e.method \in group => e.outcome.state = "fulfilled"
       IN /\ pgSettled' = settled
          /\ pgAwaiting' = IF throws \/ returns THEN pgAwaiting \ {fn} ELSE pgAwaiting
          /\ pgShown' = IF returns
                        THEN [m \in DOMAIN pgShown |->
                                IF m \in group
                                THEN (CHOOSE e \in settled : e.method = m).outcome.value
                                ELSE pgShown[m]]
                        ELSE pgShown
          /\ pgLoading' = IF returns /\ fn = "fetchData" THEN FALSE ELSE pgLoading
          /\ pgPredictionsLoading' =
                 IF (returns \/ throws) /\ fn = "fetchPredictions"
                 THEN FALSE ELSE pgPredictionsLoading
    /\ pgPage' = pgPage

\* The user leaves the page; its state is discarded.
PageUnmount ==
    /\ pgPage # "none"
    /\ pgPage' = "none"
    /\ pgLoading' = TRUE
    /\ pgPredictionsLoading' = FALSE
    /\ pgAwaiting' = {}
    /\ pgSettled' = {}
    /\ pgShown' = <<>>

PagesInit ==
    /\ pgPage = "none"
    /\ pgLoading = TRUE
    /\ pgPredictionsLoading = FALSE
    /\ pgAwaiting = {}
    /\ pgSettled = {}
    /\ pgShown = <<>>

\* What the fetch of a page's request settles with: a network failure, or
\* a success or an error status with a JSON payload or a body that is none.
PageOutcomes ==
    {FetchRejects}
    \cup { Response(st, b) : st \in {200, 500},
                             b \in {Unparseable, Parsed(JsonObject(Null, Null, "payload"))} }

PageSettles(method) ==
    /\ pgPage # "none"
    /\ \E r \in PageOutcomes : PageFetchSettles(method, r)
    /\ UNCHANGED <<authVars, apiVars, dashVars, alertVars, fmtVars, cooldownVars, chartVars, trendVars>>

DashSettles ==
    /\ dashPc = "fetching"
    /\ \E r \in PageOutcomes : DashFetchSettles(r)
    /\ UNCHANGED <<authVars, apiVars, alertVars, restVars>>

NextPages ==
    \/ /\ \E page \in EffectPages : PageMount(page)
       /\ UNCHANGED <<authVars, apiVars, dashVars, alertVars, fmtVars, cooldownVars, chartVars, trendVars>>
    \/ \E method \in DashboardGetters : PageSettles(method)
    \/ /\ PageUnmount
       /\ UNCHANGED <<authVars, apiVars, dashVars, alertVars, fmtVars, cooldownVars, chartVars, trendVars>>
    \/ /\ pgPage = "none"
       /\ DashMount
       /\ UNCHANGED <<authVars, apiVars, alertVars, restVars>>
    \/ DashSettles
    \/ DashUnmount /\ UNCHANGED <<authVars, apiVars, alertVars, restVars>>

\* Every fetch settles.
FetchesSettle ==
    /\ \A method \in DashboardGetters : WF_vars(PageSettles(method))
    /\ WF_vars(DashSettles)

(***************************************************************************)
(* components/charts/EmotionChart                                          *)
(*                                                                         *)
(* Values are in hundredths (0.32 is 32).  Array.prototype.sort sorts its  *)
(* receiver in place and is stable.                                        *)
(***************************************************************************)
mockEmotions ==
    << [emotion |-> "Trust", value |-> 32], [emotion |-> "Anticipation", value |-> 24],
       [emotion |-> "Joy", value |-> 18], [emotion |-> "Surprise", value |-> 8],
       [emotion |-> "Fear", value |-> 7], [emotion |-> "Sadness", value |-> 6],
       [emotion |-> "Anger", value |-> 4], [emotion |-> "Disgust", value |-> 1] >>

\* The longest array of the inputs, the mock array apart.
MaxBars == 3

EmotionItems == [emotion : {"Joy", "Fear"}, value : {0, 7, 18}]

EmotionArrays ==
    {mockEmotions} \cup UNION { [1..n -> EmotionItems] : n \in 0..MaxBars }

\* (a, b) => b.value - a.value
compareFn(a, b) == b.value - a.value

\* x put after the elements of the sorted array s that do not sort after it.
SortedInsert(x, s) ==
    LET k == Cardinality({ i \in 1..Len(s) : compareFn(s[i], x) <= 0 })
    IN SubSeq(s, 1, k) \o <<x>> \o SubSeq(s, k + 1, Len(s))

RECURSIVE sort(_)
sort(arr) ==
    IF arr = <<>> THEN <<>>
    ELSE SortedInsert(arr[Len(arr)], sort(SubSeq(arr, 1, Len(arr) - 1)))

\* A chart that sorts the array it was given: data.sort(...)
EmotionChart_SortsProp(data) ==
    [data |-> sort(data), sortedData |-> sort(data)]

\* const sortedData = [...data].sort(...): the prop's array afterwards, and
\* the array handed to BarChart.
EmotionChart(data) ==
    LET copy == [i \in 1..Len(data) |-> data[i]]
    IN [data |-> data, sortedData |-> sort(copy)]

\* The parent renders <EmotionChart data={...} /> with an array of its own.
PassData(arr) ==
    /\ ~IsNull(emBars)
    /\ emData' = arr
    /\ emGiven' = arr
    /\ emBars' = Null

\* The component function runs.
RenderChart ==
    /\ IsNull(emBars)
    /\ emData' = EmotionChart(emData).data
    /\ emBars' = Some(EmotionChart(emData).sortedData)
    /\ emGiven' = emGiven

ChartInit ==
    /\ emData = mockEmotions
    /\ emGiven = mockEmotions
    /\ emBars = Null

NextChart ==
    \/ /\ ~IsNull(emBars)
       /\ \E arr \in EmotionArrays : PassData(arr)
       /\ UNCHANGED <<authVars, apiVars, dashVars, alertVars, fmtVars, cooldownVars, pageVars, trendVars>>
    \/ /\ RenderChart
       /\ UNCHANGED <<authVars, apiVars, dashVars, alertVars, fmtVars, cooldownVars, pageVars, trendVars>>

(***************************************************************************)
(* components/charts/TrendChart                                            *)
(*                                                                         *)
(* A render with a new `data` commits first; the effect's cleanup and the  *)
(* effect then run together, later, and a tick of the interval set by the  *)
(* previous run may come in between.  A date is the number of its day.     *)
(***************************************************************************)
\* const duration = 1500
AnimationDurationMs == 1500

\* Math.max(10, ...)
MinIntervalMs == 10

\* The longest series of the inputs, the long one apart.
MaxPoints == 3

\* The shortest series whose interval is the minimum.
LongPoints == AnimationDurationMs \div MinIntervalMs + 1

TrendSeries(keyword, n, base) ==
    [keyword |-> keyword, data |-> [i \in 1..n |-> [date |-> i, value |-> base + i]]]

\* Entries the validation drops: no keyword, no points.
InvalidTrends == { [keyword |-> "", data |-> TrendSeries("", 1, 0).data],
                   [keyword |-> "fuel", data |-> <<>>] }

TrendInputs ==
    {<<>>}
    \cup { <<t>> : t \in InvalidTrends }
    \cup { <<TrendSeries("jobs", n, 0)>> : n \in (1..MaxPoints) \cup {LongPoints} }
    \cup { <<TrendSeries("jobs", n, 0), TrendSeries("water", m, 10)>> :
              n \in 1..MaxPoints, m \in 1..MaxPoints }
    \cup { <<t, TrendSeries("water", MaxPoints, 10)>> : t \in InvalidTrends }

\* trend && trend.keyword && trend.data && Array.isArray(trend.data) && trend.data.length > 0
IsValidTrend(trend) == trend.keyword # "" /\ Len(trend.data) > 0

\* Array.prototype.filter
RECURSIVE filter(_)
filter(arr) ==
    IF arr = <<>> THEN <<>>
    ELSE LET rest == filter(SubSeq(arr, 2, Len(arr)))
         IN IF IsValidTrend(arr[1]) THEN <<arr[1]>> \o rest ELSE rest

\* merged[trend.keyword] = trend.data[idx]?.value ?? 0, the last trend of a
\* keyword winning.
MergedValue(filtered, keyword, idx) ==
    LET last == CHOOSE j \in 1..Len(filtered) :
                   /\ filtered[j].keyword = keyword
                   /\ \A k \in (j + 1)..Len(filtered) : filtered[k].keyword # keyword
    IN IF idx <= Len(filtered[last].data) THEN filtered[last].data[idx].value ELSE 0

\* fullData: one merged point per point of the first valid trend.
FullData(filtered) ==
    [idx \in 1..Len(filtered[1].data) |->
        [date |-> filtered[1].data[idx].date,
         values |-> [keyword \in { filtered[j].keyword : j \in 1..Len(filtered) } |->
                        MergedValue(filtered, keyword, idx)]]]

\* An interval that is the smaller of the two.
AnimationInterval_Min(totalPoints) ==
    IF AnimationDurationMs <= MinIntervalMs * totalPoints
    THEN [num |-> AnimationDurationMs, den |-> totalPoints]
    ELSE [num |-> MinIntervalMs, den |-> 1]

\* Math.max(10, duration / totalPoints), as the fraction num / den.
AnimationInterval(totalPoints) ==
    IF AnimationDurationMs >= MinIntervalMs * totalPoints
    THEN [num |-> AnimationDurationMs, den |-> totalPoints]
    ELSE [num |-> MinIntervalMs, den |-> 1]

\* fullData.slice(0, currentIndex)
slice(arr, end) == SubSeq(arr, 1, IF end <= Len(arr) THEN end ELSE Len(arr))

\* useState([]), useState(true), useState([]); no interval is set.
TrendInit ==
    /\ tcMounted = FALSE
    /\ tcData = <<>>
    /\ tcEffectPending = FALSE
    /\ validData = <<>>
    /\ animatedData = <<>>
    /\ isAnimating = TRUE
    /\ tcTimers = <<>>
    /\ tcCleared = FALSE

\* <TrendChart data={trends} /> is rendered for the first time.
TrendMount(data) ==
    /\ ~tcMounted
    /\ tcMounted' = TRUE
    /\ tcData' = data
    /\ tcEffectPending' = TRUE
    /\ UNCHANGED <<validData, animatedData, isAnimating, tcTimers, tcCleared>>

\* The parent renders the chart with another `data`: [data] has changed.
TrendDataChanges(data) ==
    /\ tcMounted
    /\ ~tcEffectPending
    /\ tcData' = data
    /\ tcEffectPending' = TRUE
    /\ UNCHANGED <<tcMounted, validData, animatedData, isAnimating, tcTimers, tcCleared>>

\* return () => clearInterval(timer): the interval of the last run, if that
\* run set one and it is still there.
TrendCleanup(timers) == SelectSeq(timers, LAMBDA t : ~t.ofLastRun)

\* The body of the effect, after whatever cleanup there was.
TrendEffectBody(timers) ==
    LET filtered == filter(tcData)
        earlier == [i \in 1..Len(timers) |-> [timers[i] EXCEPT !.ofLastRun = FALSE]]
    IN IF tcData = <<>>
       THEN /\ validData' = <<>>
            /\ animatedData' = <<>>
            /\ isAnimating' = FALSE
            /\ tcTimers' = earlier
       ELSE IF filtered = <<>>
       THEN /\ validData' = filtered
            /\ animatedData' = <<>>
            /\ isAnimating' = FALSE
            /\ tcTimers' = earlier
       ELSE /\ validData' = filtered
            /\ isAnimating' = TRUE
            /\ animatedData' = <<>>
            /\ tcTimers' = Append(earlier,
                   [fullData |-> FullData(filtered),
                    currentIndex |-> 0,
                    interval |-> AnimationInterval(Len(FullData(filtered))),
                    ofLastRun |-> TRUE])

\* An effect whose run leaves the interval of the run before it.
TrendEffect_NoCleanup ==
    /\ tcMounted
    /\ tcEffectPending
    /\ tcEffectPending' = FALSE
    /\ TrendEffectBody(tcTimers)
    /\ tcCleared' = FALSE
    /\ UNCHANGED <<tcMounted, tcData>>

\* useEffect(..., [data]): the cleanup of the last run, then the body.
TrendEffect ==
    /\ tcMounted
    /\ tcEffectPending
    /\ tcEffectPending' = FALSE
    /\ TrendEffectBody(TrendCleanup(tcTimers))
    /\ tcCleared' = (TrendCleanup(tcTimers) # tcTimers)
    /\ UNCHANGED <<tcMounted, tcData>>

\* The callback of setInterval fires for the i-th interval.
TrendTick(i) ==
    LET timer == tcTimers[i]
        currentIndex == timer.currentIndex + 1
        totalPoints == Len(timer.fullData)
    IN /\ i \in 1..Len(tcTimers)
       /\ IF currentIndex <= totalPoints
          THEN /\ animatedData' = slice(timer.fullData, currentIndex)
               /\ tcTimers' = [tcTimers EXCEPT ![i].currentIndex = currentIndex]
               /\ UNCHANGED isAnimating
          ELSE /\ tcTimers' = [j \in 1..(Len(tcTimers) - 1) |->
                                  IF j < i THEN tcTimers[j] ELSE tcTimers[j + 1]]
               /\ isAnimating' = FALSE
               /\ animatedData' = timer.fullData
       /\ UNCHANGED <<tcMounted, tcData, tcEffectPending, validData, tcCleared>>

\* The chart leaves the page: the cleanup runs and the state is dropped.
TrendUnmount ==
    /\ tcMounted
    /\ ~tcEffectPending
    /\ tcMounted' = FALSE
    /\ tcData' = <<>>
    /\ validData' = <<>>
    /\ animatedData' = <<>>
    /\ isAnimating' = TRUE
    /\ tcTimers' = TrendCleanup(tcTimers)
    /\ tcCleared' = (TrendCleanup(tcTimers) # tcTimers)
    /\ UNCHANGED tcEffectPending

NextTrend ==
    \/ /\ ~tcMounted
       /\ \E data \in TrendInputs : TrendMount(data)
       /\ UNCHANGED <<authVars, apiVars, dashVars, alertVars, fmtVars, cooldownVars, pageVars, chartVars>>
    \/ /\ tcMounted /\ ~tcEffectPending
       /\ \E data \in TrendInputs : TrendDataChanges(data)
       /\ UNCHANGED <<authVars, apiVars, dashVars, alertVars, fmtVars, cooldownVars, pageVars, chartVars>>
    \/ /\ TrendEffect
       /\ UNCHANGED <<authVars, apiVars, dashVars, alertVars, fmtVars, cooldownVars, pageVars, chartVars>>
    \/ /\ \E i \in 1..Len(tcTimers) : TrendTick(i)
       /\ UNCHANGED <<authVars, apiVars, dashVars, alertVars, fmtVars, cooldownVars, pageVars, chartVars>>
    \/ /\ TrendUnmount
       /\ UNCHANGED <<authVars, apiVars, dashVars, alertVars, fmtVars, cooldownVars, pageVars, chartVars>>

(***************************************************************************)
(* The backend's automatic alerts.  The service is not among the front     *)
(* end's files; it is modelled from the email alert guide: an alert is     *)
(* sent when the dashboard refresh pipeline runs, the risk score exceeds   *)
(* the threshold, and the cooldown period has passed.                      *)
(***************************************************************************)
\* "exceeds the threshold (default: 70)"
AlertThreshold == 70

\* "The cooldown period has passed (default: 15 minutes)"
AlertCooldownMinutes == 15

\* The last minute of the clock.
MaxNow == 40

RiskScores == {0, AlertThreshold - 1, AlertThreshold, AlertThreshold + 1, 100}

\* A cooldown that never blocks.
CooldownActive_Never(t, last) == FALSE

\* now - last_alert_time < cooldown
CooldownActive(t, last) ==
    /\ ~IsNull(last)
    /\ t - last[1] < AlertCooldownMinutes

ShouldSendAlert(t, score, last) ==
    /\ score > AlertThreshold
    /\ ~CooldownActive(t, last)

\* The dashboard refresh pipeline runs, computes the score and checks it.
RefreshPipeline(score) ==
    /\ risk_score' = score
    /\ IF ShouldSendAlert(now, score, last_alert_time)
       THEN /\ last_alert_time' = Some(now)
            /\ sent_alerts' = sent_alerts \cup {[at |-> now, risk |-> score]}
       ELSE UNCHANGED <<last_alert_time, sent_alerts>>
    /\ now' = now

\* A minute passes.
ClockTick ==
    /\ now < MaxNow
    /\ now' = now + 1
    /\ UNCHANGED <<risk_score, last_alert_time, sent_alerts>>

CooldownInit ==
    /\ now = 0
    /\ risk_score = 0
    /\ last_alert_time = Null
    /\ sent_alerts = {}

NextCooldown ==
    \/ /\ \E score \in RiskScores : RefreshPipeline(score)
       /\ UNCHANGED <<authVars, apiVars, dashVars, alertVars, fmtVars, pageVars, chartVars, trendVars>>
    \/ ClockTick /\ UNCHANGED <<authVars, apiVars, dashVars, alertVars, fmtVars, pageVars, chartVars, trendVars>>

\* The session when it is not the part under study: a fresh browser at /login.
AuthIdle ==
    /\ user = Null
    /\ nisUser = Null
    /\ location = "/login"
    /\ loginError = ""
    /\ loginLoading = FALSE
    /\ loginCall = Null

\* The initial state of the parts added after the four above.
RestInit == FmtInit /\ CooldownInit /\ PagesInit /\ ChartInit /\ TrendInit

Init == AuthInit /\ ApiInit /\ DashInit /\ AlertsInit /\ RestInit

InitApi == AuthIdle /\ ApiInit /\ DashInit /\ AlertsInit /\ RestInit

InitDash == AuthIdle /\ ApiInit /\ DashInit /\ AlertsInit /\ RestInit

InitAlerts == AuthIdle /\ ApiInit /\ DashInit /\ AlertsInit /\ RestInit

NextAuth ==
    \/ \E e \in EmailInputs, p \in PasswordInputs : HandleSubmit(e, p) /\ UNCHANGED <<apiVars, dashVars, alertVars, restVars>>
    \/ HandleLogout /\ UNCHANGED <<apiVars, dashVars, alertVars, restVars>>
    \/ \E p \in Paths : Visit(p) /\ UNCHANGED <<apiVars, dashVars, alertVars, restVars>>
    \/ Redirect /\ UNCHANGED <<apiVars, dashVars, alertVars, restVars>>
    \/ Reload /\ UNCHANGED <<apiVars, dashVars, alertVars, restVars>>

SpecAuth == Init /\ [][NextAuth]_vars

SpecApi == InitApi /\ [][NextApi]_vars

SpecDash == InitDash /\ [][NextDash]_vars

SpecAlerts == InitAlerts /\ [][NextAlerts]_vars

SpecFmt == InitAlerts /\ [][NextFmt]_vars

SpecCooldown == InitAlerts /\ [][NextCooldown]_vars

SpecChart == InitAlerts /\ [][NextChart]_vars

SpecTrend == InitAlerts /\ [][NextTrend]_vars

SpecPages == InitDash /\ [][NextPages]_vars /\ FetchesSettle

(***************************************************************************)
(* Properties                                                              *)
(***************************************************************************)
\* The fetch of the settled invocation failed: it rejected, or answered with a
\* status outside 200..299, or with a body that is no JSON.
FetchFailed(r) ==
    \/ r.kind = "reject"
    \/ r.status < 200
    \/ r.status > 299
    \/ ~r.body.parses

\* C1: a dashboard getter built on fetchWithFallback never rejects; it
\* resolves to the parsed body when fetch resolved with a 2xx status and the
\* body parsed, and to exactly its fallback value in every other case.
C1_GetterFallsBack ==
    (apiPc = "settled" /\ apiCall[1].method \in DashboardGetters) =>
        /\ apiOutcome[1].state = "fulfilled"
        /\ apiOutcome[1].value =
             IF FetchFailed(apiResponse[1])
             THEN (CASE apiCall[1].method = "getSummary" -> mockDashboardSummary
                     [] apiCall[1].method = "getIssues" -> mockIssues
                     [] apiCall[1].method = "getTrends" -> mockTrends
                     [] apiCall[1].method = "getBrief" -> mockPolicyBrief
                     [] apiCall[1].method = "getSentimentPredictions" ->
                          SentimentPredictionDefault
                     [] apiCall[1].method = "getRiskPredictions" ->
                          RiskPredictionDefault)
             ELSE apiResponse[1].body.json

C1_Witness ==
    /\ apiPc = "settled"
    /\ apiCall[1].method = "getIssues"
    /\ apiResponse[1].kind = "response"
    /\ apiResponse[1].status = 502
    /\ apiOutcome[1] = Fulfilled(mockIssues)

\* C2: at /alerts an unauthenticated session is redirected to /login, an
\* authenticated session whose role is not admin is redirected to /, and the
\* Alerts page is rendered only for an authenticated admin session.
C2_AlertsAdminOnly ==
    /\ (location = "/alerts" /\ user = Null) => Rendered = Navigate("/login")
    /\ (location = "/alerts" /\ user # Null /\ user[1].role # "admin") =>
           Rendered = Navigate("/")
    /\ (location = "/alerts" /\ user # Null /\ user[1].role = "admin") =>
           Rendered = Page("Alerts")
    /\ Rendered = Page("Alerts") =>
           (location = "/alerts" /\ user # Null /\ user[1].role = "admin")

C2_Witness ==
    /\ location = "/alerts"
    /\ loginCall # Null
    /\ loginCall[1].result
    /\ user # Null
    /\ user[1].role = "analyst"
    /\ Rendered = Navigate("/")

\* C3: login returns true iff the lower-cased email is a key of the credential
\* table and the password is that entry's password; on success the session
\* user carries the lower-cased email and the entry's role and name, so it is
\* an admin session only for the admin entry.
C3_LoginTable ==
    loginCall # Null =>
        LET c == loginCall[1]
            key == toLowerCase(c.email)
        IN /\ c.result <=>
                \/ key = AdminEmail /\ c.password = "admin123"
                \/ key = AnalystEmail /\ c.password = "analyst123"
                \/ key = DemoEmail /\ c.password = "demo123"
           /\ c.result =>
                /\ c.userAfter # Null
                /\ c.userAfter[1].email = key
                /\ key = AdminEmail =>
                     (c.userAfter[1].role = "admin" /\ c.userAfter[1].name = "Admin User")
                /\ key = AnalystEmail =>
                     (c.userAfter[1].role = "analyst" /\ c.userAfter[1].name = "Senior Analyst")
                /\ key = DemoEmail =>
                     (c.userAfter[1].role = "demo" /\ c.userAfter[1].name = "Demo User")
                /\ c.userAfter[1].role = "admin" <=> key = AdminEmail

C3_Witness ==
    /\ loginCall # Null
    /\ loginCall[1].email # toLowerCase(loginCall[1].email)
    /\ loginCall[1].result
    /\ user = loginCall[1].userAfter
    /\ user[1].email = AdminEmail
    /\ isAdmin

\* C4: getAlertStatus and getAlertConfig never reject, and resolve to the
\* default safe status and the default config when the request fails.
C4_AlertDefaults ==
    (apiPc = "settled" /\ apiCall[1].method \in AlertGetters) =>
        /\ apiOutcome[1].state = "fulfilled"
        /\ (FetchFailed(apiResponse[1]) /\ apiCall[1].method = "getAlertStatus") =>
             apiOutcome[1].value =
               [type |-> "object", risk_score |-> 0, risk_level |-> "Low",
                alert_status |-> "Normal", auto_alerts_enabled |-> TRUE,
                threshold |-> 70, last_alert_time |-> <<>>,
                can_send_alert |-> TRUE, time_until_next_alert |-> <<>>]
        /\ (FetchFailed(apiResponse[1]) /\ apiCall[1].method = "getAlertConfig") =>
             apiOutcome[1].value =
               [type |-> "object", threshold |-> 70, cooldown_minutes |-> 15,
                email_configured |-> FALSE, recipients |-> <<>>]

C4_Witness ==
    /\ apiPc = "settled"
    /\ apiCall[1].method = "getAlertConfig"
    /\ apiResponse[1] = Response(200, Unparseable)
    /\ apiOutcome[1].state = "fulfilled"
    /\ apiOutcome[1].value.email_configured = FALSE

\* C6: the Alerts navigation item is visible iff the session has the admin
\* role; the five other items are visible to every authenticated session.
C6_NavItems ==
    LayoutMounted =>
        /\ "Alerts" \in VisibleLabels <=> user[1].role = "admin"
        /\ {"Dashboard", "Analytics", "Trends", "Policy Brief", "Ethics & Scope"}
             \subseteq VisibleLabels

C6_Witness ==
    /\ LayoutMounted
    /\ loginCall # Null
    /\ loginCall[1].result
    /\ user[1].role = "demo"
    /\ "Alerts" \notin VisibleLabels
    /\ "Dashboard" \in VisibleLabels

\* C7: an invocation of an api method hands exactly one request to fetch,
\* and settles as soon as that one fetch has settled, whether it succeeded or
\* failed.
C7_SingleFetch ==
    /\ apiPc = "fetching" => (Len(requests) = 1 /\ apiResponse = Null)
    /\ apiPc = "settled" =>
         (Len(requests) = 1 /\ apiResponse # Null /\ apiOutcome # Null)

C7_Witness ==
    /\ apiPc = "settled"
    /\ apiCall[1].method = "sendManualAlert"
    /\ apiResponse[1] = FetchRejects
    /\ apiOutcome[1].state = "rejected"
    /\ Len(requests) = 1

\* C8: the trust index renders success exactly when it is >= 70, warning
\* exactly when 50 <= it < 70, danger exactly when it is < 50.
C8_TrustStatus ==
    dashPc # "unmounted" =>
        /\ TrustCardStatus = "success" <=> dashData.trust_index >= 700
        /\ TrustCardStatus = "warning" <=>
             (dashData.trust_index >= 500 /\ dashData.trust_index < 700)
        /\ TrustCardStatus = "danger" <=> dashData.trust_index < 500
        /\ TrustCardStatus \in {"success", "warning", "danger"}

C8_Witness ==
    /\ dashPc = "ready"
    /\ dashData.trust_index = 700
    /\ dashData # mockDashboardSummary
    /\ TrustCardStatus = "success"

\* C9: the risk level renders success for 'Low', warning for 'Moderate',
\* danger for 'High' and 'Critical'; a level outside these four never renders
\* as warning or danger.
C9_RiskStatus ==
    dashPc # "unmounted" =>
        LET level == dashData.escalation_risk.level IN
        /\ level = "Low" => RiskCardStatus = "success"
        /\ level = "Moderate" => RiskCardStatus = "warning"
        /\ level \in {"High", "Critical"} => RiskCardStatus = "danger"
        /\ level \notin {"Low", "Moderate", "High", "Critical"} =>
             RiskCardStatus \notin {"warning", "danger"}

C9_Witness ==
    /\ dashPc = "ready"
    /\ dashData.escalation_risk.level = "Severe"
    /\ RiskCardStatus = "success"

\* C10: the volatility index renders success exactly when it is < 40, warning
\* exactly when 40 <= it < 60, danger exactly when it is >= 60.
C10_VolatilityStatus ==
    dashPc # "unmounted" =>
        /\ VolatilityCardStatus = "success" <=> dashData.volatility_index < 400
        /\ VolatilityCardStatus = "warning" <=>
             (dashData.volatility_index >= 400 /\ dashData.volatility_index < 600)
        /\ VolatilityCardStatus = "danger" <=> dashData.volatility_index >= 600

C10_Witness ==
    /\ dashPc = "ready"
    /\ dashData.volatility_index = 600
    /\ dashData # mockDashboardSummary
    /\ VolatilityCardStatus = "danger"

\* C5: when sendManualAlert or testEmail fails, its promise rejects and the
\* Alerts page ends with an error banner whose text is the error's message:
\* for a non-2xx response, the body's detail when present and 'HTTP <status>'
\* otherwise; a success banner is shown only when the request succeeded.
C5_SendFailureSurfaces ==
    (alMounted /\ alLastSend # Null /\ IsNull(alSend)) =>
        LET r == alLastSend[1].response
            out == alLastSend[1].outcome
            hasDetail == /\ r.body.parses
                         /\ r.body.json.type = "object"
                         /\ r.body.json.detail # Null
                         /\ r.body.json.detail # <<"">>
        IN /\ FetchFailed(r) =>
                /\ out.state = "rejected"
                /\ alMessage # Null
                /\ alMessage[1].type = "error"
                /\ alMessage[1].text = out.value.message
           /\ (r.kind = "response" /\ (r.status < 200 \/ r.status > 299)) =>
                /\ alMessage # Null
                /\ alMessage[1].text = IF hasDetail THEN Text(r.body.json.detail[1])
                                       ELSE HttpText(r.status)
           /\ (alMessage # Null /\ alMessage[1].type = "success") => ~FetchFailed(r)

\* C11: for every positive integer s, formatTimeRemaining(s) shows
\* minutes = floor(s / 60) and seconds = s mod 60, so 0 <= seconds <= 59 and
\* minutes * 60 + seconds = s; a null or zero value shows 'Ready'.
C11_MinutesSeconds ==
    fmtShown # Null =>
        IF fmtSeconds = Null \/ fmtSeconds = <<0>>
        THEN fmtShown[1].ready
        ELSE /\ ~fmtShown[1].ready
             /\ fmtShown[1].secs >= 0
             /\ fmtShown[1].secs <= 59
             /\ fmtShown[1].minutes >= 0
             /\ fmtShown[1].minutes * 60 + fmtShown[1].secs = fmtSeconds[1]

C11_Witness ==
    /\ fmtSeconds = <<125>>
    /\ fmtShown # Null
    /\ fmtShown[1].minutes = 2
    /\ fmtShown[1].secs = 5

\* C12: the Alerts page starts one load when it mounts and sets the interval;
\* the interval starts a load only while the page is mounted and 30 seconds
\* have passed since the mount or the interval's last load; an unmount clears
\* the interval, so that it starts no load afterwards.
C12_IntervalLoadStarts ==
    /\ Len(alLoads') = Len(alLoads) + 1
    /\ alLoads'[Len(alLoads')].origin = "interval"

C12_PollingLifecycle ==
    [][ /\ (~alMounted /\ alMounted') =>
             (alInterval' /\ alElapsed' = 0 /\ Len(alLoads') = 1
                /\ alLoads'[1].origin = "effect")
        /\ C12_IntervalLoadStarts =>
             (alMounted /\ alMounted' /\ alInterval /\ alElapsed >= 30000 /\ alElapsed' = 0)
        /\ ~alMounted' => ~alInterval' ]_vars

\* The interval has started a load on the mounted page, 30 seconds after the
\* load of the mount, which has completed.
C12_Witness ==
    /\ alMounted
    /\ alElapsed = 0
    /\ Len(alLoads) = 1
    /\ alLoads[1].origin = "interval"
    /\ ~IsNull(alStatus)

\* C13: every automatic alert was sent with a risk score above the threshold of
\* 70, no two automatic alerts are less than 15 minutes apart, and once 15
\* minutes have passed since the last one a score above the threshold sends
\* the next.
C13_AlertCooldown ==
    /\ \A a \in sent_alerts : a.risk > 70
    /\ \A a, b \in sent_alerts : a.at < b.at => b.at - a.at >= 15
    /\ \A a \in sent_alerts : a.at <= last_alert_time[1]
    /\ (~IsNull(last_alert_time) /\ now - last_alert_time[1] >= 15)
           => ENABLED (RefreshPipeline(71) /\ last_alert_time' = Some(now))

\* Two alerts exactly one cooldown apart.
C13_Witness ==
    /\ [at |-> 3, risk |-> 71] \in sent_alerts
    /\ [at |-> 18, risk |-> 100] \in sent_alerts
    /\ now = 20
    /\ risk_score = 70

\* C14: every request an api method issues has the HTTP method and the path
\* listed for it: GET on /api/v1/dashboard/{summary,issues,trends,brief} and
\* /predictions/{sentiment,risk}, POST on /api/v1/dashboard/refresh, GET on
\* /api/v1/alerts/{status,config}, POST on /api/v1/alerts/{send-manual,test-email}.
C14_Endpoint ==
    [getSummary |-> <<"GET", "/api/v1/dashboard/summary">>,
     getIssues |-> <<"GET", "/api/v1/dashboard/issues">>,
     getTrends |-> <<"GET", "/api/v1/dashboard/trends">>,
     getBrief |-> <<"GET", "/api/v1/dashboard/brief">>,
     refresh |-> <<"POST", "/api/v1/dashboard/refresh">>,
     getSentimentPredictions |-> <<"GET", "/api/v1/dashboard/predictions/sentiment">>,
     getRiskPredictions |-> <<"GET", "/api/v1/dashboard/predictions/risk">>,
     getAlertStatus |-> <<"GET", "/api/v1/alerts/status">>,
     getAlertConfig |-> <<"GET", "/api/v1/alerts/config">>,
     sendManualAlert |-> <<"POST", "/api/v1/alerts/send-manual">>,
     testEmail |-> <<"POST", "/api/v1/alerts/test-email">>]

C14_EndpointsAsListed ==
    /\ ApiMethods = DOMAIN C14_Endpoint
    /\ ~IsNull(apiCall) =>
          \A i \in 1..Len(requests) :
              <<requests[i].verb, RequestUrl(requests[i])>> = C14_Endpoint[apiCall[1].method]

C14_Witness ==
    /\ apiPc = "settled"
    /\ apiCall[1].method = "refresh"
    /\ requests[1].verb = "POST"
    /\ RequestUrl(requests[1]) = "/api/v1/dashboard/refresh"

\* C15: the session user is non-null exactly when local storage holds the
\* entry 'nis_user', the entry is the serialised current user, and a reload
\* restores from it the same user (none after a logout).
C15_SessionMatchesStorage ==
    /\ IsNull(user) <=> IsNull(nisUser)
    /\ ~IsNull(user) => nisUser = Some(JSONstringify(user[1]))
    /\ RestoredUser(nisUser) = user

\* An administrator has logged in with a mixed-case address.
C15_Witness ==
    /\ ~IsNull(loginCall)
    /\ loginCall[1].result
    /\ loginCall[1].email # toLowerCase(loginCall[1].email)
    /\ user = loginCall[1].userAfter
    /\ user[1].role = "admin"
    /\ nisUser = Some(JSONstringify(user[1]))

\* C16: when every fetch settles, a mounted data page (Dashboard, Analytics,
\* Trends, Policy Brief) that is loading eventually is not, or has been left;
\* a page that is not loading shows, for each request, the server's payload
\* if the response was a 2xx with a JSON body and the mock data otherwise;
\* Trends is not loading only when both its requests have settled.
C16_ShowsPayloadOrMock ==
    \A e \in pgSettled :
        (~pgLoading /\ e.method \in Awaited(pgPage, "fetchData")) =>
            pgShown[e.method] =
                IF FetchFailed(e.response) THEN FallbackOf(e.method)
                ELSE e.response.body.json

C16_DashShowsPayloadOrMock ==
    dashPc = "unmounted" \/ dashLoading
      \/ dashData = mockDashboardSummary
      \/ dashData \in { r.body.json : r \in { o \in PageOutcomes : ~FetchFailed(o) } }

C16_TrendsAfterBoth ==
    (pgPage = "Trends" /\ ~pgLoading) =>
        {"getIssues", "getTrends"} \subseteq SettledMethods(pgSettled)

C19_Count(arr, x) == Cardinality({ i \in 1..Len(arr) : arr[i] = x })

C19_SortedCopy ==
    ~IsNull(emBars) =>
       LET bars == emBars[1] IN
       /\ \A i, j \in 1..Len(bars) : i < j => bars[i].value >= bars[j].value
       /\ Len(bars) = Len(emGiven)
       /\ \A i \in 1..Len(emGiven) : C19_Count(bars, emGiven[i]) = C19_Count(emGiven, emGiven[i])
       /\ emData = emGiven

\* An input out of order has been rendered in order.
C19_Witness ==
    /\ ~IsNull(emBars)
    /\ emGiven = << [emotion |-> "Joy", value |-> 7], [emotion |-> "Fear", value |-> 18],
                    [emotion |-> "Joy", value |-> 18] >>
    /\ emBars[1] = << [emotion |-> "Fear", value |-> 18], [emotion |-> "Joy", value |-> 18],
                      [emotion |-> "Joy", value |-> 7] >>
    /\ emData = emGiven

\* C20: without a session the only page rendered is Login, a path no route
\* matches redirects to "/", and following the redirects from any path ends
\* at /login; with a session Login is not rendered and /login redirects to "/".
C20_After(path) ==
    LET element == RouteElement(path, isAuthenticated, isAdmin)
    IN IF element.kind = "navigate" THEN element.target ELSE path

C20_RouteGuards ==
    /\ IsNull(user) =>
          /\ Rendered.kind = "page" => Rendered = Page("Login")
          /\ location \notin (LayoutPaths \cup {"/login"}) => Rendered = Navigate("/")
          /\ C20_After(C20_After(location)) = "/login"
          /\ RouteElement("/login", isAuthenticated, isAdmin) = Page("Login")
    /\ ~IsNull(user) =>
          /\ Rendered # Page("Login")
          /\ location = "/login" => Rendered = Navigate("/")

\* After a failed login the browser is pointed at a path no route matches.
C20_Witness ==
    /\ IsNull(user)
    /\ ~IsNull(loginCall)
    /\ ~loginCall[1].result
    /\ location = "/reports"
    /\ Rendered = Navigate("/")

\* C17: after overlapping loads have all completed, the status shown is the
\* one returned by the load that started last.
C17_NewestLoadShown ==
    (alMounted /\ alLoads = <<>>) => ~alStale

\* C18, as stated: on the rendered page 'Send Alert Manually' is enabled only
\* when the status held has can_send_alert true, the config held has
\* email_configured true and no send is in progress; 'Test Email' only when
\* email_configured is true and no send is in progress; with the default
\* config of a failed config request both are disabled.
C18_ButtonsRendered == alMounted /\ ~AlertsPlaceholder

C18_ConfigAllows == ~IsNull(alConfig) /\ alConfig[1].email_configured

C18_ConfigFailureDisables ==
    /\ \A rc \in ConfigOutcomes :
          FetchFailed(rc) =>
             Nullable(ApiSettles("getAlertConfig", rc).value) = Some(AlertConfigDefault)
    /\ alConfig = Some(AlertConfigDefault) => (ManualAlertDisabled /\ TestEmailDisabled)

C21_LogoutStep ==
    (~IsNull(user) /\ IsNull(user')) =>
        /\ ~isAuthenticated'
        /\ ~isAdmin'
        /\ IsNull(nisUser')
        /\ location' = "/login"

C21_SessionBeginsWithLogin ==
    (IsNull(user) /\ ~IsNull(user')) =>
        /\ ~IsNull(loginCall')
        /\ loginCall'[1].result
        /\ loginCall'[1].userAfter = user'
        /\ ~IsNull(CredentialLookup(toLowerCase(loginCall'[1].email)))

C21_LogoutEndsSession ==
    /\ [][C21_LogoutStep /\ C21_SessionBeginsWithLogin]_vars
    /\ [](IsNull(user) => (Rendered.kind = "page" => Rendered = Page("Login")))
    /\ [](IsNull(user) => (~isAuthenticated /\ ~isAdmin /\ RestoredUser(nisUser) = Null))

\* An administrator who logged in has logged out.
C21_Witness ==
    /\ IsNull(user)
    /\ IsNull(nisUser)
    /\ location = "/login"
    /\ ~IsNull(loginCall)
    /\ loginCall[1].result
    /\ loginCall[1].userAfter[1].role = "admin"

\* C22: login with an email that is not in the table, or with a password that
\* is not the entry's, returns false and hands back the session user and the
\* stored entry it found, whatever they are; a submit of a failed login
\* leaves user, storage and location as they were, shows 'Invalid
\* credentials. Please try again.' and ends with loading false.
C22_Fails(email, password) ==
    ~ \E k \in CredentialKeys :
          toLowerCase(email) = k /\ CREDENTIALS(k).password = Some(password)

C22_LoginLeavesSession ==
    \A e \in EmailInputs, p \in PasswordInputs :
        C22_Fails(e, p) =>
            login(e, p, user, nisUser) = [result |-> FALSE, user |-> user, stored |-> nisUser]

C22_FailedSubmit ==
    (loginCall' # loginCall /\ C22_Fails(loginCall'[1].email, loginCall'[1].password)) =>
        /\ ~loginCall'[1].result
        /\ user' = user
        /\ nisUser' = nisUser
        /\ location' = location
        /\ loginError' = "Invalid credentials. Please try again."
        /\ loginLoading' = FALSE

C22_FailedLogin ==
    /\ [][C22_FailedSubmit]_vars
    /\ []C22_LoginLeavesSession

\* The administrator's address with a password of the wrong case was refused.
C22_Witness ==
    /\ ~IsNull(loginCall)
    /\ toLowerCase(loginCall[1].email) = AdminEmail
    /\ loginCall[1].password = "Admin123"
    /\ ~loginCall[1].result
    /\ IsNull(user)
    /\ location = "/login"
    /\ loginError = "Invalid credentials. Please try again."
    /\ ~loginLoading

\* C23: at most one send request (manual alert or test email) is in flight;
\* sending is true while the handler of a send is in progress, both action
\* buttons are disabled while it is true, and it is false once the handler
\* has finished, whatever the outcome of the send.
C23_OneSendInFlight ==
    /\ alEarlierSends + (IF SendInFlight THEN 1 ELSE 0) <= 1
    /\ (alMounted /\ ~IsNull(alSend)) => alSending
    /\ (alMounted /\ alSending) => (ManualAlertDisabled /\ TestEmailDisabled)
    /\ (alMounted /\ IsNull(alSend)) => ~alSending

\* C24: when the manual alert request is answered with a 2xx and a JSON
\* object, the step that resumes the handler sets the success banner and
\* starts a load, with sending still true; sending is cleared by the step in
\* which that load completes.  When the request fails (and when a 2xx carries
\* no object, which the handler's catch treats alike) the step sets an error
\* banner, starts no load, leaves status and config as they were and clears
\* sending.
C24_ManualSettles ==
    /\ alMounted /\ alMounted'
    /\ SendInFlight /\ ~SendInFlight'
    /\ alSend[1].kind = "manual"

C24_Succeeded(r) == ~FetchFailed(r) /\ r.body.json.type = "object"

C24_SendLoads(loads) == { i \in 1..Len(loads) : loads[i].origin = "send" }

C24_SettleStep ==
    C24_ManualSettles =>
        IF C24_Succeeded(alLastSend'[1].response)
        THEN /\ alMessage'[1].type = "success"
             /\ Len(alLoads') = Len(alLoads) + 1
             /\ alLoads'[Len(alLoads')].origin = "send"
             /\ SubSeq(alLoads', 1, Len(alLoads)) = alLoads
             /\ alSending'
             /\ alStatus' = alStatus /\ alConfig' = alConfig
        ELSE /\ alMessage'[1].type = "error"
             /\ alLoads' = alLoads
             /\ alStatus' = alStatus /\ alConfig' = alConfig
             /\ ~alSending'

C24_SendingClearedByReload ==
    (alMounted /\ alMounted' /\ alSending /\ ~alSending'
       /\ ~IsNull(alSend) /\ alSend[1].pc = "awaitLoad") =>
        /\ C24_SendLoads(alLoads) # {}
        /\ C24_SendLoads(alLoads') = {}
        /\ Len(alLoads') = Len(alLoads) - 1

C25_StatusNeverReset ==
    [][(alMounted /\ alMounted' /\ ~IsNull(alStatus)) =>
           (~IsNull(alStatus') /\ ~AlertsPlaceholder')]_vars

(***************************************************************************)
(* C26.  TrendChart reveals the merged series point by point.              *)
(***************************************************************************)
\* The effect has run for the `data` of the last render, and some trend of
\* it is valid.
C26_Settled == tcMounted /\ ~tcEffectPending /\ filter(tcData) # <<>>

C26_Full == FullData(filter(tcData))

\* x is max(10, 1500 / n): no less than either, and one of the two.
C26_IsInterval(x, n) ==
    /\ x.den > 0
    /\ x.num >= MinIntervalMs * x.den
    /\ x.num * n >= AnimationDurationMs * x.den
    /\ \/ x.num = MinIntervalMs * x.den
       \/ x.num * n = AnimationDurationMs * x.den

\* What is displayed is a prefix of the merged series, as long as the
\* number of ticks so far while the interval is set, and all of it with
\* isAnimating false once the interval is cleared.
C26_Displayed ==
    C26_Settled =>
        /\ Len(animatedData) <= Len(C26_Full)
        /\ animatedData = SubSeq(C26_Full, 1, Len(animatedData))
        /\ Len(C26_Full) = Len(filter(tcData)[1].data)
        /\ IF tcTimers # <<>>
           THEN /\ isAnimating
                /\ tcTimers[1].currentIndex = Len(animatedData)
                /\ C26_IsInterval(tcTimers[1].interval, Len(C26_Full))
           ELSE /\ ~isAnimating
                /\ animatedData = C26_Full

\* The effect starts the reveal from nothing, the tick counter at 0.
C26_StartsEmpty ==
    (tcEffectPending /\ C26_Settled') =>
        /\ animatedData' = <<>>
        /\ Len(tcTimers') = 1
        /\ tcTimers'[1].currentIndex = 0

\* A tick: one more point while points are left, and the interval cleared
\* by the tick after the last point.
C26_Tick ==
    (C26_Settled /\ C26_Settled' /\ tcTimers # <<>> /\ tcTimers' # tcTimers) =>
        IF tcTimers[1].currentIndex < Len(C26_Full)
        THEN /\ Len(animatedData') = Len(animatedData) + 1
             /\ tcTimers' # <<>>
             /\ tcTimers'[1].currentIndex = tcTimers[1].currentIndex + 1
        ELSE /\ tcTimers' = <<>>
             /\ ~isAnimating'
             /\ animatedData' = C26_Full

\* C26: for valid input of n merged points the displayed data is always a
\* prefix of the merged series, starts empty, grows by one point with each
\* of the first n ticks, and with tick n + 1 the interval is cleared,
\* isAnimating is false and the whole series is displayed; the interval is
\* max(10, 1500 / n) milliseconds.
C26_ProgressiveReveal == []C26_Displayed /\ [][C26_StartsEmpty /\ C26_Tick]_vars

\* A series of more than one point has been revealed to the end.
C26_Witness ==
    /\ C26_Settled
    /\ tcTimers = <<>>
    /\ ~isAnimating
    /\ Len(animatedData) > 1
    /\ animatedData = C26_Full

(***************************************************************************)
(* C27.  A new `data` or the unmount ends the old animation.               *)
(***************************************************************************)
\* At most one interval is set, none when the chart is unmounted, and once
\* the effect has run the interval is the one of the current series.
C27_OneTimer ==
    /\ Len(tcTimers) <= 1
    /\ ~tcMounted => tcTimers = <<>>
    /\ (tcMounted /\ ~tcEffectPending /\ tcTimers # <<>>) =>
           /\ filter(tcData) # <<>>
           /\ \A i \in 1..Len(tcTimers) : tcTimers[i].fullData = C26_Full

\* The run of the effect leaves no interval of the run before it, and
\* nothing displayed.
C27_EffectClears ==
    (tcEffectPending /\ ~tcEffectPending') =>
        /\ animatedData' = <<>>
        /\ \A i \in 1..Len(tcTimers') : tcTimers'[i].currentIndex = 0

\* After the run of the effect, whatever a tick writes is of the current
\* series.
C27_TickWritesCurrent ==
    (tcMounted /\ ~tcEffectPending /\ tcMounted' /\ ~tcEffectPending'
        /\ animatedData' # animatedData) =>
        /\ filter(tcData) # <<>>
        /\ Len(animatedData') <= Len(C26_Full)
        /\ animatedData' = SubSeq(C26_Full, 1, Len(animatedData'))

====
